---- MODULE Spec2Model ----
(***************************************************************************)
(* Model of truther (src/main.go): main() and Neural().                    *)
(*                                                                         *)
(* Numbers.  float64 values are fixed-point integers: the integer n stands *)
(* for n / Unit.  complex128 values are pairs <<re, im>> of such integers. *)
(* Every product and quotient rounds to the nearest representable value,   *)
(* as IEEE arithmetic does at its own precision.                           *)
(*                                                                         *)
(* Positions.  pos is the statement main() or Neural() is about to run.    *)
(***************************************************************************)
EXTENDS Integers, Sequences, FiniteSets, TLC

\* ---------------------------------------------------------------- bounds
\* Fixed-point resolution: 1.0 is represented by Unit.
Unit == 1000
\* rand streams 0..MaxStream the seeded generator may produce.
MaxStream == 2
\* Solver-defined orders 0..MaxOrder of the eigenpairs.
MaxOrder == 2

\* ------------------------------------------------------ program constants
Size == 5
iterations == 128
\* eta = complex128(.3)
eta == <<(3 * Unit) \div 10, 0>>
\* k := 2, the number of principal components kept
k == 2

\* ------------------------------------------------------------- arithmetic
\* float64 product a*b
FMul(a, b) == (a * b + Unit \div 2) \div Unit
\* float64 quotient a/b, b > 0
FDiv(a, b) == (a * Unit + b \div 2) \div b

RECURSIVE ISqrt(_)
\* floor of the square root of the natural number n
ISqrt(n) ==
    IF n < 2 THEN n
    ELSE LET s == 2 * ISqrt(n \div 4)
         IN  IF (s + 1) * (s + 1) <= n THEN s + 1 ELSE s

\* math.Sqrt on a fixed-point value x >= 0
Sqrt(x) == ISqrt(x * Unit)

CAdd(x, y) == <<x[1] + y[1], x[2] + y[2]>>
CSub(x, y) == <<x[1] - y[1], x[2] - y[2]>>
CMul(x, y) == <<FMul(x[1], y[1]) - FMul(x[2], y[2]),
               FMul(x[1], y[2]) + FMul(x[2], y[1])>>
CConj(x) == <<x[1], -x[2]>>
CScale(n, x) == <<n * x[1], n * x[2]>>
\* cmplx.Abs
CAbs(x) == ISqrt(x[1] * x[1] + x[2] * x[2])
\* real(z)
Re(x) == x[1]
CZero == <<0, 0>>

RECURSIVE CSum(_, _)
\* x[1] + ... + x[n] of a sequence of complex values
CSum(x, n) == IF n = 0 THEN CZero ELSE CAdd(CSum(x, n - 1), x[n])

RECURSIVE Sum(_, _)
\* x[1] + ... + x[n] of a sequence of numbers
Sum(x, n) == IF n = 0 THEN 0 ELSE Sum(x, n - 1) + x[n]

\* ------------------------------------------------------------- variables
VARIABLES
    pos,         \* statement about to run
    FlagNeural,  \* *FlagNeural after flag.Parse()
    stream,      \* which stream rand.Seed(1) yields
    drawn,       \* rand.Float64() calls made so far
    values,      \* eig.Values(nil)
    vectors,     \* eig.VectorsTo(&vectors): vectors[r+1][c+1] = At(r, c)
    Weights,     \* set.Weights: <<A, X, Y>>, each [N, S, X, D]
    i,           \* Neural: loop counter
    total,       \* Neural: tc128.Gradient(cost).X[0]
    sum,         \* Neural: sum of |d|^2
    norm,        \* Neural: sqrt(sum)
    scaling,     \* Neural: clip factor
    points,      \* Neural: plotter.XYs of (iteration, cost)
    printed,     \* Neural: magnitudes of the weights printed at the end
    ranks,       \* main: real parts of vectors
    vpoints,     \* main: projected points
    files,       \* files created on disk
    written,     \* lines of vectors.dat written successfully
    lost,        \* lines of vectors.dat whose write failed
    panicked     \* panic message, "" while none

vars == <<pos, FlagNeural, stream, drawn, values, vectors, Weights, i, total,
          sum, norm, scaling, points, printed, ranks, vpoints, files, written,
          lost, panicked>>

neuralVars == <<Weights, i, total, sum, norm, scaling, points, printed>>
mainVars == <<values, vectors, ranks, vpoints, written, lost>>

\* --------------------------------------------------------- decomposition
\* The adjacency matrix of main() is symmetric; its eigenpairs are real:
\* eigenvalues (3+sqrt 17)/2, 0, -2, 0, (3-sqrt 17)/2 with unit eigenvectors.
\* The solver fixes the order; Order(o) is the o-th rotation of this list.
EigenValue(n) ==
    CASE n = 0 -> (35616 * Unit) \div 10000
      [] n = 1 -> 0
      [] n = 2 -> -2 * Unit
      [] n = 3 -> 0
      [] n = 4 -> -((5616 * Unit) \div 10000)

\* component r (0-based) of the n-th unit eigenvector
EigenVector(n, r) ==
    LET a == (3941 * Unit) \div 10000
        c == (6154 * Unit) \div 10000
        b == (3077 * Unit) \div 10000
        d == (7882 * Unit) \div 10000
        h == (7071 * Unit) \div 10000
    IN  CASE n = 0 -> IF r = 4 THEN c ELSE a
          [] n = 1 -> IF r = 0 THEN h ELSE IF r = 2 THEN -h ELSE 0
          [] n = 2 -> IF r = 4 THEN 0
                      ELSE IF r \in {0, 2} THEN Unit \div 2 ELSE -(Unit \div 2)
          [] n = 3 -> IF r = 1 THEN h ELSE IF r = 3 THEN -h ELSE 0
          [] n = 4 -> IF r = 4 THEN -d ELSE b

Order(o, c) == (c + o) % Size

\* eig.Values(nil) under order o
Values(o) == [c \in 1..Size |-> <<EigenValue(Order(o, c - 1)), 0>>]
\* eig.VectorsTo: column c is the eigenvector of values[c]
VectorsTo(o) ==
    [r \in 1..Size |-> [c \in 1..Size |->
        <<EigenVector(Order(o, c - 1), r - 1), 0>>]]

\* vectors.At(r, c), 0-based
At_transposed(m, r, c) == m[c + 1][r + 1]
At(m, r, c) == m[r + 1][c + 1]

\* ------------------------------------------------------------------ rand
\* rand.Float64(): the n-th draw (0-based) of stream s, in [0, 1)
Float64(s, n) ==
    IF s = 0 THEN Unit \div 2
    ELSE (((s * 7919 + n * 104729 + n * n * 31) % 1009) * Unit) \div 1009

\* random128(a, b) given its two draws
random128(a, b, r1, r2) == <<FMul(b - a, r1) + a, FMul(b - a, r2) + a>>

\* ----------------------------------------------------------------- tc128
\* tc128.NewSet().Add(name, d1, d2): no values yet, a zero gradient buffer
NewV(name, d1, d2) ==
    [N |-> name, S |-> <<d1, d2>>, X |-> <<>>, D |-> [l \in 1..(d1 * d2) |-> CZero]]

\* set.Zero(): every gradient buffer reset
Zero(W) == [w \in 1..Len(W) |-> [W[w] EXCEPT !.D = [l \in 1..Len(@) |-> CZero]]]

\* tc128.Mul(A, X): the value of l1
Mul(A, X) ==
    [r \in 1..Size |->
        CSum([c \in 1..Size |-> CMul(A[(r - 1) * Size + c], X[c])], Size)]

\* residual Y - l1
Residual(W) ==
    LET l1 == Mul(W[1].X, W[2].X)
    IN  [r \in 1..Size |-> CSub(W[3].X[r], l1[r])]

\* squared magnitude |z|^2
SqMag(z) == FMul(z[1], z[1]) + FMul(z[2], z[2])

\* tc128.Quadratic(Y, l1): the value of cost for residual res
Quadratic(res) == <<Sum([r \in 1..Size |-> SqMag(res[r])], Size), 0>>

\* the value tc128.Gradient(cost).X[0] for the weights W
Cost(W) == Quadratic(Residual(W))

\* the gradients the backward pass of cost adds to the buffers of A, X and Y
BackA(W, res) ==
    [l \in 1..(Size * Size) |->
        CScale(-2, CMul(res[((l - 1) \div Size) + 1],
                        CConj(W[2].X[((l - 1) % Size) + 1])))]
BackX(W, res) ==
    [c \in 1..Size |->
        CScale(-2, CSum([r \in 1..Size |->
            CMul(res[r], CConj(W[1].X[(r - 1) * Size + c]))], Size))]
BackY(W, res) == [r \in 1..Size |-> CScale(2, res[r])]

\* tc128.Gradient(cost): the buffers after the backward pass (accumulating)
Gradient(W) ==
    LET res == Residual(W)
        g == <<BackA(W, res), BackX(W, res), BackY(W, res)>>
    IN  [w \in 1..3 |->
            [W[w] EXCEPT !.D = [l \in 1..Len(@) |-> CAdd(@[l], g[w][l])]]]

\* ---------------------------------------------------------------- Neural
\* lines 41-59: the set with A random, X = row 0 of vectors, Y = values[0]*X
NewSet(vals, vecs, s, n) ==
    << [NewV("A", Size, Size) EXCEPT !.X =
           [l \in 1..(Size * Size) |->
               random128(-Unit, Unit, Float64(s, n + 2 * (l - 1)),
                                      Float64(s, n + 2 * (l - 1) + 1))]],
       [NewV("X", Size, 1) EXCEPT !.X = [l \in 1..Size |-> At(vecs, 0, l - 1)]],
       [NewV("Y", Size, 1) EXCEPT !.X =
           [l \in 1..Size |-> CMul(vals[1], At(vecs, 0, l - 1))]] >>

\* lines 71-76: sum of |d|^2 over the gradient buffers of every weight of the set
SumSq(W) ==
    Sum([w \in 1..Len(W) |->
            Sum([l \in 1..Len(W[w].D) |-> FMul(CAbs(W[w].D[l]), CAbs(W[w].D[l]))],
                Len(W[w].D))], Len(W))

\* lines 78-81: scaling for a norm n
Clip_off(n) == Unit
Clip(n) == IF n > Unit THEN FDiv(Unit, n) ELSE Unit

\* lines 83-86: w.X[l] -= eta * d * complex(scaling, 0) for w = set.Weights[0]
Step(d, sc) == CMul(CMul(eta, d), <<sc, 0>>)
Update_all(W, sc) ==
    [w \in 1..Len(W) |->
        [W[w] EXCEPT !.X = [l \in 1..Len(@) |-> CSub(@[l], Step(W[w].D[l], sc))]]]
Update(W, sc) ==
    [W EXCEPT ![1].X = [l \in 1..Len(@) |-> CSub(@[l], Step(W[1].D[l], sc))]]

\* line 67: the loop condition
Continue_converged == i < iterations /\ (i = 0 \/ total # CZero)
Continue == i < iterations

Init ==
    /\ pos = "factorize"
    /\ FlagNeural \in BOOLEAN
    /\ stream \in 0..MaxStream
    /\ drawn = 0
    /\ values = <<>>
    /\ vectors = <<>>
    /\ Weights = <<>>
    /\ i = 0
    /\ total = CZero
    /\ sum = 0
    /\ norm = 0
    /\ scaling = Unit
    /\ points = <<>>
    /\ printed = <<>>
    /\ ranks = <<>>
    /\ vpoints = <<>>
    /\ files = {}
    /\ written = 0
    /\ lost = 0
    /\ panicked = ""

\* panic(msg): the process aborts where it stands
Panic(msg) ==
    /\ pos' = "panic"
    /\ panicked' = msg

\* lines 132-160: eig.Factorize, then the values and vectors are read
Factorize ==
    /\ pos = "factorize"
    /\ \E ok \in BOOLEAN, o \in 0..MaxOrder :
          IF ~ok
          THEN /\ Panic("Eigendecomposition failed")
               /\ UNCHANGED <<values, vectors>>
          ELSE /\ values' = Values(o)
               /\ vectors' = VectorsTo(o)
               /\ pos' = "flag"
               /\ UNCHANGED panicked
    /\ UNCHANGED <<FlagNeural, stream, drawn, ranks, vpoints, files, written, lost>>
    /\ UNCHANGED neuralVars

\* lines 162-164: if *FlagNeural { Neural(&vectors, values) }
Branch_always ==
    /\ pos = "flag"
    /\ pos' = "neural"
    /\ UNCHANGED <<FlagNeural, stream, drawn, files, panicked>>
    /\ UNCHANGED mainVars
    /\ UNCHANGED neuralVars
Branch ==
    /\ pos = "flag"
    /\ pos' = IF FlagNeural THEN "neural" ELSE "pca"
    /\ UNCHANGED <<FlagNeural, stream, drawn, files, panicked>>
    /\ UNCHANGED mainVars
    /\ UNCHANGED neuralVars

\* lines 37-66: the set, the cost graph, eta, iterations, points, i
NeuralInit ==
    /\ pos = "neural"
    /\ Weights' = NewSet(values, vectors, stream, drawn)
    /\ drawn' = drawn + 2 * Size * Size
    /\ i' = 0
    /\ points' = <<>>
    /\ pos' = "loop"
    /\ UNCHANGED <<FlagNeural, stream, total, sum, norm, scaling, printed,
                   files, panicked>>
    /\ UNCHANGED mainVars

\* line 67: for i < iterations
LoopTest ==
    /\ pos = "loop"
    /\ pos' = IF Continue THEN "zero" ELSE "save_cost"
    /\ UNCHANGED <<FlagNeural, stream, drawn, files, panicked>>
    /\ UNCHANGED mainVars
    /\ UNCHANGED neuralVars

\* line 68: set.Zero()
CallZero_skip ==
    /\ pos = "zero"
    /\ pos' = "gradient"
    /\ UNCHANGED <<FlagNeural, stream, drawn, files, panicked>>
    /\ UNCHANGED mainVars
    /\ UNCHANGED neuralVars
CallZero ==
    /\ pos = "zero"
    /\ Weights' = Zero(Weights)
    /\ pos' = "gradient"
    /\ UNCHANGED <<FlagNeural, stream, drawn, i, total, sum, norm, scaling,
                   points, printed, files, panicked>>
    /\ UNCHANGED mainVars

\* line 70: total := tc128.Gradient(cost).X[0]
CallGradient_late ==
    /\ pos = "gradient"
    /\ Weights' = Gradient(Weights)
    /\ total' = Cost(Update(Weights', Clip(Sqrt(SumSq(Weights')))))
    /\ pos' = "norm"
    /\ UNCHANGED <<FlagNeural, stream, drawn, i, sum, norm, scaling, points,
                   printed, files, panicked>>
    /\ UNCHANGED mainVars
CallGradient ==
    /\ pos = "gradient"
    /\ total' = Cost(Weights)
    /\ Weights' = Gradient(Weights)
    /\ pos' = "norm"
    /\ UNCHANGED <<FlagNeural, stream, drawn, i, sum, norm, scaling, points,
                   printed, files, panicked>>
    /\ UNCHANGED mainVars

\* lines 71-81: sum, norm, scaling
ComputeScaling ==
    /\ pos = "norm"
    /\ sum' = SumSq(Weights)
    /\ norm' = Sqrt(sum')
    /\ scaling' = Clip(norm')
    /\ pos' = "update"
    /\ UNCHANGED <<FlagNeural, stream, drawn, Weights, i, total, points,
                   printed, files, panicked>>
    /\ UNCHANGED mainVars

\* lines 83-86: the update of set.Weights[0]
ApplyUpdate ==
    /\ pos = "update"
    /\ Weights' = Update(Weights, scaling)
    /\ pos' = "append"
    /\ UNCHANGED <<FlagNeural, stream, drawn, i, total, sum, norm, scaling,
                   points, printed, files, panicked>>
    /\ UNCHANGED mainVars

\* lines 88-90: points = append(points, XY{i, |total|}); i++
AppendPoint_nonzero ==
    /\ pos = "append"
    /\ points' = IF total = CZero THEN points
                 ELSE Append(points, [X |-> i, Y |-> CAbs(total)])
    /\ i' = i + 1
    /\ pos' = "loop"
    /\ UNCHANGED <<FlagNeural, stream, drawn, Weights, total, sum, norm,
                   scaling, printed, files, panicked>>
    /\ UNCHANGED mainVars
AppendPoint ==
    /\ pos = "append"
    /\ points' = Append(points, [X |-> i, Y |-> CAbs(total)])
    /\ i' = i + 1
    /\ pos' = "loop"
    /\ UNCHANGED <<FlagNeural, stream, drawn, Weights, total, sum, norm,
                   scaling, printed, files, panicked>>
    /\ UNCHANGED mainVars

\* lines 93-110: the cost plot.  plotter.NewScatter fails only on NaN or
\* infinite data, which the finite values here never are; p.Save may fail.
SaveCost ==
    /\ pos = "save_cost"
    /\ \E ok \in BOOLEAN :
          IF ok
          THEN /\ files' = files \cup {"cost.png"}
               /\ pos' = "print"
               /\ UNCHANGED panicked
          ELSE /\ Panic("cost.png")
               /\ UNCHANGED files
    /\ UNCHANGED <<FlagNeural, stream, drawn>>
    /\ UNCHANGED mainVars
    /\ UNCHANGED neuralVars

\* lines 112-118: the magnitudes of the trained weights are printed
PrintWeights ==
    /\ pos = "print"
    /\ printed' = [l \in 1..(Size * Size) |-> CAbs(Weights[1].X[l])]
    /\ pos' = "pca"
    /\ UNCHANGED <<FlagNeural, stream, drawn, Weights, i, total, sum, norm,
                   scaling, points, files, panicked>>
    /\ UNCHANGED mainVars

\* ------------------------------------------------------------------ main
\* lines 166-171: ranks.Set(i, j, real(vectors.At(i, j)))
Ranks(vecs) == [r \in 1..Size |-> [c \in 1..Size |-> Re(At(vecs, r - 1, c - 1))]]

\* proj.At(r, c): row r of data on principal component c of data; the
\* components are a function of data alone
ProjAt(data, r, c) == [row |-> data[r + 1], component |-> c]

\* lines 166-176: ranks, pc.PrincipalComponents
PrincipalComponents ==
    /\ pos = "pca"
    /\ ranks' = Ranks(vectors)
    /\ \E ok \in BOOLEAN :
          IF ok
          THEN pos' = "project" /\ UNCHANGED panicked
          ELSE Panic("PrincipalComponents failed")
    /\ UNCHANGED <<FlagNeural, stream, drawn, values, vectors, vpoints, files,
                   written, lost>>
    /\ UNCHANGED neuralVars

\* lines 177-188: the projection on the first k components and its points
Project ==
    /\ pos = "project"
    /\ vpoints' = [p \in 1..Size |->
                      [X |-> ProjAt(ranks, p - 1, 0), Y |-> ProjAt(ranks, p - 1, k - 1)]]
    /\ pos' = "save_vectors"
    /\ UNCHANGED <<FlagNeural, stream, drawn, values, vectors, ranks, files,
                   written, lost, panicked>>
    /\ UNCHANGED neuralVars

\* lines 190-207: the vectors plot; p.Save may fail
SaveVectors ==
    /\ pos = "save_vectors"
    /\ \E ok \in BOOLEAN :
          IF ok
          THEN /\ files' = files \cup {"vectors.png"}
               /\ pos' = "create"
               /\ UNCHANGED panicked
          ELSE /\ Panic("vectors.png")
               /\ UNCHANGED files
    /\ UNCHANGED <<FlagNeural, stream, drawn>>
    /\ UNCHANGED mainVars
    /\ UNCHANGED neuralVars

\* lines 209-213: os.Create("vectors.dat")
Create ==
    /\ pos = "create"
    /\ \E ok \in BOOLEAN :
          IF ok
          THEN /\ files' = files \cup {"vectors.dat"}
               /\ pos' = "write"
               /\ UNCHANGED panicked
          ELSE /\ Panic("vectors.dat")
               /\ UNCHANGED files
    /\ UNCHANGED <<FlagNeural, stream, drawn>>
    /\ UNCHANGED mainVars
    /\ UNCHANGED neuralVars

\* lines 214-216: fmt.Fprintf(output, ...) for the next point; the error
\* Fprintf returns is discarded
WriteLine ==
    /\ pos = "write"
    /\ written + lost < Len(vpoints)
    /\ \E ok \in BOOLEAN :
          IF ok
          THEN written' = written + 1 /\ UNCHANGED lost
          ELSE lost' = lost + 1 /\ UNCHANGED written
    /\ UNCHANGED <<pos, FlagNeural, stream, drawn, values, vectors, ranks,
                   vpoints, files, panicked>>
    /\ UNCHANGED neuralVars

\* line 217: main returns (the deferred output.Close() runs): exit status 0
Return ==
    /\ pos = "write"
    /\ written + lost = Len(vpoints)
    /\ pos' = "done"
    /\ UNCHANGED <<FlagNeural, stream, drawn, files, panicked>>
    /\ UNCHANGED mainVars
    /\ UNCHANGED neuralVars

Next ==
    \/ Factorize
    \/ Branch
    \/ NeuralInit
    \/ LoopTest
    \/ CallZero
    \/ CallGradient
    \/ ComputeScaling
    \/ ApplyUpdate
    \/ AppendPoint
    \/ SaveCost
    \/ PrintWeights
    \/ PrincipalComponents
    \/ Project
    \/ SaveVectors
    \/ Create
    \/ WriteLine
    \/ Return

Spec == Init /\ [][Next]_vars

\* ------------------------------------------------------------ properties

\* the weights Neural starts from, for the inputs of this run
InitialWeights == NewSet(values, vectors, stream, 0)
\* every entry of a gradient buffer is zero
AllZero(D) == \A l \in 1..Len(D) : D[l] = CZero
\* sum of |d|^2 over one buffer, as lines 73-75 add it up
SumSqOf(D) == Sum([l \in 1..Len(D) |-> FMul(CAbs(D[l]), CAbs(D[l]))], Len(D))
\* exact sum of squares (in units of 1/Unit^2) of a sequence of complex values
RawSq(x) == Sum([l \in 1..Len(x) |-> x[l][1] * x[l][1] + x[l][2] * x[l][2]], Len(x))
\* tolerance of the fixed-point arithmetic: one percent
Eps == Unit \div 100
\* positions inside Neural
NeuralPos == {"neural", "loop", "zero", "gradient", "norm", "update", "append",
              "save_cost", "print"}
\* positions of the optimizer loop
LoopPos == {"loop", "zero", "gradient", "norm", "update", "append"}

\* C1: the norm used for clipping is computed over A's gradient buffer only;
\* the gradients of X and Y do not contribute to it.
C1_NormOverTrainableOnly ==
    pos = "update" => /\ sum = SumSqOf(Weights[1].D)
                      /\ norm = Sqrt(SumSqOf(Weights[1].D))

\* C2: once the set is initialised, no step changes the values of X or Y, and
\* the values of A change only in the update step.
C2_OnlyAUpdated ==
    [][Weights # <<>> =>
          /\ Weights'[2].X = Weights[2].X
          /\ Weights'[3].X = Weights[3].X
          /\ (Weights'[1].X # Weights[1].X => pos = "update")]_vars
\* an update has changed A while X and Y carry gradients
C2_Witness ==
    /\ pos = "append"
    /\ Weights[1].X # InitialWeights[1].X
    /\ ~AllZero(Weights[2].D)
    /\ ~AllZero(Weights[3].D)

\* C3: when a Gradient call starts every gradient buffer is zero, and the
\* buffers it leaves hold the gradient of the current values alone.
C3_ZeroBeforeGradient ==
    /\ (pos = "gradient" => \A w \in 1..3 : AllZero(Weights[w].D))
    /\ (pos = "norm" => Weights = Gradient(Zero(Weights)))
\* the second iteration has its gradients, the first had non-zero ones
C3_Witness ==
    /\ pos = "norm"
    /\ i = 1
    /\ sum > 0
    /\ \A w \in 1..3 : ~AllZero(Weights[w].D)

\* steps an optimizer at position p with counter n still has to take before
\* it tests the loop condition for the last time
LoopRank(p) ==
    CASE p = "loop" -> 5 [] p = "zero" -> 4 [] p = "gradient" -> 3
      [] p = "norm" -> 2 [] p = "update" -> 1 [] p = "append" -> 0
Measure(p, n) == (iterations - n) * 6 + LoopRank(p)

\* C4: the loop body runs only while i < iterations; every step of the loop
\* either stays in the loop and brings its end nearer or leaves it with
\* i = iterations, whatever the cost and the gradients are; i changes only
\* by one, at the end of an iteration.
C4_FixedIterationCount ==
    /\ [](pos = "zero" => i < iterations)
    /\ [](pos \in {"save_cost", "print"} => i = iterations)
    /\ [](pos \in LoopPos => Measure(pos, i) >= 0)
    /\ [][(pos \in LoopPos) =>
            ((pos' \in LoopPos /\ Measure(pos', i') < Measure(pos, i))
             \/ (pos' = "save_cost" /\ i = iterations /\ i' = i))]_vars
    /\ [][i' # i => (pos = "append" /\ i' = i + 1)]_vars
\* a run whose cost and gradients are zero from the first iteration on has
\* completed all its iterations
C4_Witness ==
    /\ pos = "save_cost"
    /\ i = iterations
    /\ \A n \in 1..iterations : points[n].Y = 0
    /\ \A w \in 1..3 : AllZero(Weights[w].D)

\* C5: the trace has one entry per completed iteration, entry n carries
\* index n-1 and a cost magnitude >= 0, no step changes or removes an entry,
\* and after the loop it has iterations entries.
C5_TraceAppendOnly ==
    /\ [](Len(points) = i)
    /\ [](\A n \in 1..Len(points) : points[n].X = n - 1 /\ points[n].Y >= 0)
    /\ [](pos \in {"save_cost", "print", "done"} /\ FlagNeural
             => Len(points) = iterations)
    /\ [][/\ Len(points') >= Len(points)
          /\ \A n \in 1..Len(points) : points'[n] = points[n]]_vars
\* a finished run with the full trace
C5_Witness ==
    /\ pos = "done"
    /\ Len(points) = iterations
    /\ points[iterations].X = iterations - 1
    /\ points[1].Y > 0

\* C6: scaling is 1 for norm <= 1 and 1/norm otherwise; the scaled gradient
\* of A has Euclidean norm <= 1 + eps, and an update moves A by at most
\* eta * (1 + eps) in Euclidean norm.
C6_ClippingBound ==
    /\ [](pos = "update" =>
            /\ (norm <= Unit => scaling = Unit)
            /\ (norm > Unit => scaling = FDiv(Unit, norm))
            /\ RawSq([l \in 1..(Size * Size) |-> CMul(Weights[1].D[l], <<scaling, 0>>)])
                  <= (Unit + Eps) * (Unit + Eps))
    /\ [][pos = "update" =>
            RawSq([l \in 1..(Size * Size) |-> CSub(Weights'[1].X[l], Weights[1].X[l])])
               <= FMul(eta[1], Unit + Eps) * FMul(eta[1], Unit + Eps)]_vars
\* clipping is active on a gradient of A that is itself longer than 1
C6_Witness ==
    /\ pos = "update"
    /\ norm > Unit
    /\ scaling < Unit
    /\ RawSq(Weights[1].D) > Unit * Unit

\* C7: with the flag off nothing of Neural happens; with it on Neural runs
\* after a successful decomposition and has run in full, once, when PCA
\* starts; the input and the points of PCA are those of the decomposition
\* whatever the flag is.
C7_FlagSelectsNeural ==
    /\ (~FlagNeural =>
            /\ pos \notin NeuralPos
            /\ Weights = <<>> /\ i = 0 /\ points = <<>> /\ printed = <<>>
            /\ drawn = 0
            /\ "cost.png" \notin files)
    /\ (pos \in NeuralPos => FlagNeural /\ values # <<>> /\ ranks = <<>>)
    /\ (FlagNeural /\ pos \in {"pca", "project", "save_vectors", "create", "write", "done"} =>
            /\ i = iterations /\ Len(points) = iterations
            /\ printed # <<>>
            /\ drawn = 2 * Size * Size
            /\ "cost.png" \in files)
    /\ (ranks # <<>> =>
            /\ \E o \in 0..MaxOrder : vectors = VectorsTo(o)
            /\ \A r \in 1..Size, c \in 1..Size : ranks[r][c] = vectors[r][c][1])
    /\ (vpoints # <<>> =>
            \A p \in 1..Size : /\ vpoints[p].X = ProjAt(ranks, p - 1, 0)
                               /\ vpoints[p].Y = ProjAt(ranks, p - 1, 1))
\* a run with the flag off that ended in success
C7_Witness ==
    /\ pos = "done"
    /\ ~FlagNeural
    /\ files = {"vectors.png", "vectors.dat"}
    /\ Len(vpoints) = Size

\* C8: a failed decomposition aborts before Neural, PCA, any plot or the data
\* file; a failed PCA aborts before the projection, the vectors plot and the
\* data file; after any failure, a plot or data-file I/O failure included,
\* the run does not end in success.
C8_FailureIsFatal ==
    /\ (panicked = "Eigendecomposition failed" =>
            Weights = <<>> /\ ranks = <<>> /\ files = {})
    /\ (panicked = "PrincipalComponents failed" =>
            vpoints = <<>> /\ files \cap {"vectors.png", "vectors.dat"} = {})
    /\ (panicked # "" => pos = "panic")
    /\ (lost > 0 => pos # "done")

\* C9: the cost is evaluated on the weights an iteration starts with and is
\* what the iteration records; entry 0 is the cost of the initial weights;
\* after the loop nothing evaluates the cost again.
C9_CostBeforeUpdate ==
    /\ [](Len(points) >= 1 => points[1].Y = CAbs(Cost(InitialWeights)))
    /\ [][/\ (pos = "gradient" =>
                 /\ total' = Cost(Weights)
                 /\ \A w \in 1..3 : Weights'[w].X = Weights[w].X)
          /\ (pos \in {"norm", "update"} => total' = total)
          /\ (pos = "append" =>
                 /\ points' = Append(points, [X |-> i, Y |-> CAbs(total)])
                 /\ Weights' = Weights)
          /\ (pos \in {"save_cost", "print"} =>
                 total' = total /\ points' = points /\ Weights' = Weights)
          /\ (pos = "print" =>
                 printed' = [l \in 1..(Size * Size) |-> CAbs(Weights[1].X[l])])]_vars
\* the recorded cost is that of the weights before the update, which the
\* update has changed
C9_Witness ==
    /\ pos = "append"
    /\ i >= 1
    /\ Weights[1].X # InitialWeights[1].X
    /\ CAbs(total) # CAbs(Cost(Weights))

\* C10: X is row 0 of the eigenvector matrix, Y is values[0] times X, and A,
\* X and Y hold rows*cols values, in every state from the end of NeuralInit.
C10_SeededFromDecomposition ==
    Weights # <<>> =>
        /\ \A c \in 1..Size :
              /\ Weights[2].X[c] = vectors[1][c]
              /\ Weights[3].X[c] = CMul(values[1], Weights[2].X[c])
        /\ \A w \in 1..3 :
              /\ Len(Weights[w].X) = Weights[w].S[1] * Weights[w].S[2]
              /\ Len(Weights[w].D) = Len(Weights[w].X)
        /\ Len(Weights[1].X) = 25 /\ Len(Weights[2].X) = 5 /\ Len(Weights[3].X) = 5
\* inside the loop, after an update, with a matrix whose row 0 is not its
\* column 0 and a non-zero first eigenvalue
C10_Witness ==
    /\ pos = "append"
    /\ i >= 1
    /\ values[1] # CZero
    /\ \E c \in 1..Size : vectors[1][c] # vectors[c][1]
    /\ Weights[1].X # InitialWeights[1].X

====
